---- MODULE Spec2Model ----
(***************************************************************************)
(* Model of the MARC PTC dashboard (src/app/page.tsx and its sibling page  *)
(* src/unnamed/part_000): the Dashboard component, its TabView and the      *)
(* generic DataTable (the "Browser" of the specification).                 *)
(*                                                                         *)
(* Strings are sequences of UTF-16 code units, so that toLowerCase,        *)
(* String.prototype.includes and the < of the sort comparator are modelled *)
(* by what they do.  A record (table row) is a function from field names   *)
(* to tagged values.                                                       *)
(***************************************************************************)
EXTENDS Integers, Sequences, FiniteSets, TLC

\* ------------------------------------------------------------------ bounds
\* Largest record collection handed to a DataTable under SpecTable.
MaxRecords == 6
\* Longest run of freely chosen records such a collection repeats.
MaxPattern == 3
\* Size of the generated locomotive collection under Spec (48 in the source).
NumLocos == 11

\* ------------------------------------------------------------- JS strings
CodeUnit ==
    ("A" :> 65) @@ ("B" :> 66) @@ ("a" :> 97) @@ ("b" :> 98) @@ ("z" :> 122) @@
    ("0" :> 48) @@ ("1" :> 49) @@ ("2" :> 50) @@ ("5" :> 53) @@ ("8" :> 56) @@
    ("t" :> 116) @@ ("r" :> 114) @@ ("u" :> 117) @@ ("e" :> 101) @@
    ("f" :> 102) @@ ("l" :> 108) @@ ("s" :> 115) @@
    ("M" :> 77) @@ ("R" :> 82) @@ ("C" :> 67) @@ (" " :> 32) @@ ("." :> 46) @@
    ("O" :> 79) @@ ("p" :> 112) @@ ("n" :> 110) @@
    ("o" :> 111) @@ ("v" :> 118) @@ ("d" :> 100)

\* The string whose characters are cs, as a sequence of code units.
S(cs) == [i \in 1..Len(cs) |-> CodeUnit[cs[i]]]

Min(a, b) == IF a < b THEN a ELSE b
Max(a, b) == IF a > b THEN a ELSE b

\* String.prototype.toLowerCase on the ASCII range.
toLowerCase(s) == [i \in 1..Len(s) |-> IF s[i] \in 65..90 THEN s[i] + 32 ELSE s[i]]

\* String.prototype.includes: scan the start positions left to right.
RECURSIVE includesFrom(_, _, _)
includesFrom(s, t, k) ==
    IF k + Len(t) - 1 > Len(s) THEN FALSE
    ELSE IF SubSeq(s, k, k + Len(t) - 1) = t THEN TRUE
    ELSE includesFrom(s, t, k + 1)

includes(s, t) == includesFrom(s, t, 1)

\* Number-to-string conversion of a non-negative integer.
RECURSIVE NumberToString(_)
NumberToString(n) ==
    IF n < 10 THEN <<48 + n>>
    ELSE Append(NumberToString(n \div 10), 48 + (n % 10))

\* Number-to-string conversion of a non-negative number of hundredths: the
\* shortest decimal, so no trailing zero and no point before an empty fraction.
DecimalToString(h) ==
    LET whole == NumberToString(h \div 100)
        tenths == (h % 100) \div 10
        hundredths == h % 10
    IN  IF h % 100 = 0 THEN whole
        ELSE IF hundredths = 0 THEN whole \o <<CodeUnit["."], 48 + tenths>>
        ELSE whole \o <<CodeUnit["."], 48 + tenths, 48 + hundredths>>

\* The digits of the fraction f / 10^width, without trailing zeros.
RECURSIVE FractionDigits(_, _)
FractionDigits(f, width) ==
    IF f = 0 THEN <<>>
    ELSE <<48 + (f \div (10 ^ (width - 1)))>>
         \o FractionDigits(f % (10 ^ (width - 1)), width - 1)

\* Number-to-string conversion of a non-negative number of millionths.
MicroToString(u) ==
    LET whole == NumberToString(u \div 1000000)
        fraction == FractionDigits(u % 1000000, 6)
    IN  IF fraction = <<>> THEN whole ELSE whole \o <<CodeUnit["."]>> \o fraction

\* ----------------------------------------------------------------- values
\* A number is an integer (Num), a decimal given in hundredths (Dec) or one
\* given in millionths (Micro).
Num(n) == [t |-> "num", v |-> n]
Dec(h) == [t |-> "dec", v |-> h]
Micro(u) == [t |-> "micro", v |-> u]
Str(cs) == [t |-> "str", v |-> S(cs)]
Bool(b) == [t |-> "bool", v |-> b]
Undefined == [t |-> "undefined"]

\* String(value)
String(value) ==
    CASE value.t = "num" -> NumberToString(value.v)
      [] value.t = "dec" -> DecimalToString(value.v)
      [] value.t = "micro" -> MicroToString(value.v)
      [] value.t = "str" -> value.v
      [] value.t = "bool" -> IF value.v THEN S(<<"t", "r", "u", "e">>)
                                        ELSE S(<<"f", "a", "l", "s", "e">>)
      [] OTHER -> S(<<>>)

\* s < t on strings: lexicographic order of the code units.
RECURSIVE StringLess(_, _)
StringLess(s, t) ==
    IF t = <<>> THEN FALSE
    ELSE IF s = <<>> THEN TRUE
    ELSE IF s[1] # t[1] THEN s[1] < t[1]
    ELSE StringLess(Tail(s), Tail(t))

\* aValue < bValue of the comparator; a comparison with undefined is false.
Less(x, y) ==
    CASE x.t = "num" /\ y.t = "num" -> x.v < y.v
      [] x.t = "dec" /\ y.t = "dec" -> x.v < y.v
      [] x.t = "micro" /\ y.t = "micro" -> x.v < y.v
      [] x.t = "str" /\ y.t = "str" -> StringLess(x.v, y.v)
      [] x.t = "bool" /\ y.t = "bool" -> (~x.v) /\ y.v
      [] OTHER -> FALSE

\* item[key]: undefined when the record has no such field.
Field(item, key) == IF key \in DOMAIN item THEN item[key] ELSE Undefined

\* Object.values(item)
ObjectValues(item) == {item[f] : f \in DOMAIN item}

\* ------------------------------------------------------ datasets and tabs
NULL == [null |-> TRUE]

\* detailedDataTabs: the ids of the tabs, in order.
TabIds == <<"locomotives", "faults", "hourly", "routes", "initializations", "map">>
Datasets == {TabIds[i] : i \in 1..Len(TabIds)}

\* The element a tab's content renders at the root of the TabView slot: the
\* DataTable itself, or a <div> holding a chart and then the DataTable.
TabContentShape(tab) ==
    IF tab \in {"hourly", "map"} THEN "div" ELSE "DataTable"

\* The column keys of each tab's DataTable (a bounded selection of them).
Columns(tab) ==
    CASE tab = "locomotives" -> <<"id", "runs">>
      [] tab = "faults" -> <<"id", "locomotive", "resolved">>
      [] tab = "hourly" -> <<"hour", "ptcActivePercentage">>
      [] tab = "routes" -> <<"routeId">>
      [] tab = "initializations" -> <<"id", "locomotive">>
      [] tab = "map" -> <<"id", "coordinates">>

\* LocomotiveData records the tables are exercised on.
LocoUniverse ==
    << [id |-> Str(<<"A", "b">>), runs |-> Num(5)],
       [id |-> Str(<<"a", "b">>), runs |-> Num(5)],
       [id |-> Str(<<"A", "b">>), runs |-> Num(12)] >>

\* The first n records of the endless repetition of pattern.
Cycle(pattern, n) == [i \in 1..n |-> pattern[((i - 1) % Len(pattern)) + 1]]

\* The collections of at most MaxRecords locomotive records that repeat a
\* pattern of at most MaxPattern records (so: every collection of at most
\* MaxPattern records, and longer ones filling several pages).
Colls ==
    LET patterns == UNION {[1..n -> {LocoUniverse[i] : i \in 1..Len(LocoUniverse)}] :
                              n \in 1..MaxPattern}
    IN  {Cycle(pattern, n) : pattern \in patterns, n \in 0..MaxRecords}

\* The numbers of locomotives and of initialization logs the loops of part_000
\* generate.
LocomotiveCount == 48
InitializationCount == 162

\* The locomotive id `MARC ${n}`, also the name of a chart entry.
MarcId(n) == [t |-> "str", v |-> S(<<"M", "A", "R", "C", " ">>) \o NumberToString(n)]

\* A ChartDataItem.
ChartItem(name, value) == [name |-> name, value |-> value]

\* A ranking literal: one entry per <<locomotive number, value>>, the values
\* being integers ("num") or hundredths ("dec").
Ranking(entries, tag) ==
    [i \in 1..Len(entries) |->
        ChartItem(MarcId(entries[i][1]), [t |-> tag, v |-> entries[i][2]])]

\* A distribution literal: one entry per <<bucket label, count>>.
Distribution(entries) ==
    [i \in 1..Len(entries) |-> ChartItem(entries[i][1], Num(entries[i][2]))]

\* The overview literal, the same in both pages.
Overview ==
    [totalRuns |-> Num(144), totalMiles |-> Dec(464570),
     totalPtcActiveMiles |-> Dec(452798), totalPtcActivePercentage |-> Dec(9747),
     totalEnforcements |-> Num(3), totalFaults |-> Num(3928),
     totalInits |-> Num(162), totalCutOutTrips |-> Num(216)]

\* The keys of the rankings and of the distributions of DashboardData.
RankingKeys == {"topLocosByMiles", "topLocosByRuns", "bottomByPtcPercentage"}
DistributionKeys == {"ptcPercentageDistribution", "runCountDistribution", "initsDistribution"}

\* The overview, rankings and distributions of page.tsx: one entry each.
LiteralCharts ==
    [overview |-> Overview,
     topLocosByMiles |-> Ranking(<< <<7850, 19449>> >>, "dec"),
     topLocosByRuns |-> Ranking(<< <<8056, 7>> >>, "num"),
     bottomByPtcPercentage |-> Ranking(<< <<8058, 8510>> >>, "dec"),
     ptcPercentageDistribution |-> Distribution(<< <<">97%", 32>> >>),
     runCountDistribution |-> Distribution(<< <<"1-3 Runs", 28>> >>),
     initsDistribution |-> Distribution(<< <<"Successful", 121>> >>)]

\* The overview, rankings and distributions of part_000, literals as well.
GeneratedCharts ==
    [overview |-> Overview,
     topLocosByMiles |->
        Ranking(<< <<7850, 19449>>, <<7851, 19152>>, <<7761, 17053>>, <<21, 16846>>,
                   <<7849, 15525>>, <<7855, 13206>>, <<8056, 12997>>, <<80, 12926>>,
                   <<34, 12919>>, <<7757, 12887>> >>, "dec"),
     topLocosByRuns |->
        Ranking(<< <<8056, 7>>, <<8058, 7>>, <<7851, 6>>, <<8045, 6>>, <<8049, 6>>,
                   <<11, 5>>, <<7850, 5>>, <<7852, 5>>, <<7855, 5>>, <<17, 4>> >>, "num"),
     bottomByPtcPercentage |->
        Ranking(<< <<8058, 8510>>, <<8050, 9147>>, <<8049, 9260>>, <<8045, 9305>>,
                   <<8046, 9379>>, <<32, 9382>>, <<17, 9422>>, <<7759, 9481>>,
                   <<8054, 9494>>, <<7760, 9504>> >>, "dec"),
     ptcPercentageDistribution |->
        Distribution(<< <<"90-95%", 8>>, <<"95-97%", 7>>, <<"97-99%", 18>>,
                        <<"99-100%", 14>> >>),
     runCountDistribution |->
        Distribution(<< <<"1 run", 7>>, <<"2 runs", 16>>, <<"3 runs", 11>>,
                        <<"4 runs", 5>>, <<"5+ runs", 9>> >>),
     initsDistribution |->
        Distribution(<< <<"Successful", 121>>, <<"Failed", 18>>, <<"Incomplete", 23>> >>)]

\* The i-th locomotive pushed by the loop of part_000, the random draws being
\* those of outcome offset: 1..7 runs, 50 to 250 miles, 85 to 100 percent, and
\* ptcActiveMiles = miles * (ptcActivePercentage / 100).
GeneratedLoco(i, offset) ==
    [id |-> MarcId(7800 + i),
     runs |-> Num(((i + offset) % 7) + 1),
     miles |-> Dec(19449 - 100 * i - 13 * offset),
     ptcActiveMiles |-> Micro((19449 - 100 * i - 13 * offset)
                              * (IF i = 1 THEN 8510 ELSE 9904)),
     ptcActivePercentage |-> IF i = 1 THEN Dec(8510) ELSE Dec(9904)]

\* The data generated by fetchData of page.tsx: one record per dataset.
LiteralData ==
    LiteralCharts @@
    [d \in Datasets |->
        CASE d = "locomotives" ->
                << [id |-> MarcId(7850), runs |-> Num(5), miles |-> Dec(19449),
                    ptcActiveMiles |-> Dec(19262),
                    ptcActivePercentage |-> Dec(9904)] >>
          [] d = "faults" -> << [id |-> Num(1), locomotive |-> Str(<<"A", "b">>),
                                 resolved |-> Bool(TRUE)] >>
          [] d = "hourly" -> << [hour |-> Num(8), activeRuns |-> Num(12)] >>
          [] d = "routes" -> << [routeId |-> Str(<<"B", "1">>), totalRuns |-> Num(12)] >>
          [] d = "initializations" -> << [id |-> Num(1), locomotive |-> Str(<<"A", "b">>)] >>
          [] d = "map" -> << [id |-> Num(1), locomotive |-> Str(<<"A", "b">>),
                              latitude |-> Micro(39304500)] >>]

\* The data generated by fetchData of part_000: loops pushing random records.
GeneratedData(offset) ==
    GeneratedCharts @@
    [d \in Datasets |->
        CASE d = "locomotives" -> [i \in 1..NumLocos |-> GeneratedLoco(i, offset)]
          [] d = "faults" -> << [id |-> Num(1), locomotive |-> Str(<<"A", "b">>),
                                 resolved |-> Bool(offset = 0)],
                                [id |-> Num(2), locomotive |-> Str(<<"a", "b">>),
                                 resolved |-> Bool(FALSE)] >>
          [] d = "hourly" -> << [hour |-> Num(0), activeRuns |-> Num(5)],
                                [hour |-> Num(1), activeRuns |-> Num(12)] >>
          [] d = "routes" -> << [routeId |-> Str(<<"B", "1">>), totalRuns |-> Num(12)],
                                [routeId |-> Str(<<"B", "2">>), totalRuns |-> Num(10)] >>
          [] d = "initializations" -> << [id |-> Num(1), locomotive |-> Str(<<"a", "b">>)],
                                         [id |-> Num(2), locomotive |-> Str(<<"A", "b">>)] >>
          [] d = "map" -> << [id |-> Num(1), locomotive |-> Str(<<"A", "b">>),
                              latitude |-> Micro(38805000 + offset)],
                             [id |-> Num(2), locomotive |-> Str(<<"a", "b">>),
                              latitude |-> Micro(39120000)] >>]

\* What a fetch may deliver.
DataChoices == {LiteralData} \cup {GeneratedData(o) : o \in {0, 1}}

\* The data prop of a lone DataTable over collection c.
TableData(c) == [d \in Datasets |-> IF d = "locomotives" THEN c ELSE <<>>]

\* Texts typed into the search box.
Terms == {S(<<>>), S(<<"A">>), S(<<"5">>)}

\* Variant of RowsPerPageOptions: the select offers 20 rows per page as well.
RowsPerPageOptions_With20 == {5, 10, 20, 25, 50, 100}

\* The options of the rows-per-page select.
RowsPerPageOptions == {5, 10, 25, 50, 100}

\* ------------------------------------------------------------------ state
VARIABLES
    data,         \* Dashboard: DashboardData | null
    isLoading,    \* Dashboard: the loading flag
    inFlight,     \* number of fetchData calls suspended at their await
    activeTab,    \* TabView: id of the tab shown
    page,         \* DataTable: page index
    rowsPerPage,  \* DataTable: page size
    searchTerm,   \* DataTable: search text
    sortConfig,   \* DataTable: null | {key, direction}
    error,        \* Dashboard: Error | null
    activeSection,\* Dashboard: the section chosen in the Sidebar
    download,     \* the file the handler that ran last gave the browser, or null
    isDarkMode,   \* ThemeProvider: the theme flag
    bodyDark,     \* document.body carries the class 'dark'
    prefersDarkMode \* matchMedia('(prefers-color-scheme: dark)').matches

vars == <<data, isLoading, inFlight, activeTab, page, rowsPerPage, searchTerm, sortConfig,
          error, activeSection, download, isDarkMode, bodyDark, prefersDarkMode>>
themeVars == <<isDarkMode, bodyDark, prefersDarkMode>>
tableVars == <<page, rowsPerPage, searchTerm, sortConfig>>

\* Dashboard renders its tree (not the spinner, not the error display).
Rendered == (~isLoading) /\ error = NULL /\ data # NULL

\* useState initial values of DataTable.
InitialPage == 0
InitialRowsPerPage == 10
InitialSearchTerm == S(<<>>)
InitialSortConfig == NULL

\* DataTable props: all three default to true and no caller overrides them.
pagination == TRUE
searchable == TRUE
sortable == TRUE

\* ------------------------------------------------- DataTable: derived view
\* Array.prototype.slice(start, end)
slice(s, start, end) ==
    LET n == Len(s)
        lo == IF start < 0 THEN Max(n + start, 0) ELSE Min(start, n)
        hi == IF end < 0 THEN Max(n + end, 0) ELSE Min(end, n)
    IN  SubSeq(s, lo + 1, hi)

\* The text the Status column of the fault table shows for a record.
renderResolved(item) ==
    IF item["resolved"].v THEN S(<<"R", "e", "s", "o", "l", "v", "e", "d">>)
                         ELSE S(<<"O", "p", "e", "n">>)

\* Variant of matchesSearch: what the columns of the table show is searched
\* (the rendered text of a column with a render function, the field of the
\* column key otherwise).
matchesSearch_Displayed(item, term) ==
    \E i \in 1..Len(Columns(activeTab)) :
        LET key == Columns(activeTab)[i]
            text == IF activeTab = "faults" /\ key = "resolved"
                    THEN renderResolved(item)
                    ELSE String(Field(item, key))
        IN  includes(toLowerCase(text), toLowerCase(term))

\* Variant of matchesSearch: only the id of the record is searched.
matchesSearch_IdOnly(item, term) ==
    includes(toLowerCase(String(Field(item, "id"))), toLowerCase(term))

\* Variant of matchesSearch: the comparison is case-sensitive.
matchesSearch_CaseSensitive(item, term) ==
    \E value \in ObjectValues(item) : includes(String(value), term)

\* The predicate handed to data.filter.
matchesSearch(item, term) ==
    \E value \in ObjectValues(item) :
        includes(toLowerCase(String(value)), toLowerCase(term))

\* The data prop of the DataTable of the tab shown.
tableData == data[activeTab]

filteredData ==
    IF searchable
    THEN SelectSeq(tableData, LAMBDA item : matchesSearch(item, searchTerm))
    ELSE tableData

\* Variant of compare: never reports a tie (return aValue < bValue ? -1 : 1).
compare_NoTie(a, b, config) ==
    IF Less(Field(a, config.key), Field(b, config.key))
    THEN (IF config.direction = "asc" THEN -1 ELSE 1)
    ELSE (IF config.direction = "asc" THEN 1 ELSE -1)

\* The comparator handed to sort.
compare(a, b, config) ==
    LET aValue == Field(a, config.key)
        bValue == Field(b, config.key)
    IN  IF Less(aValue, bValue) THEN (IF config.direction = "asc" THEN -1 ELSE 1)
        ELSE IF Less(bValue, aValue) THEN (IF config.direction = "asc" THEN 1 ELSE -1)
        ELSE 0

\* Array.prototype.sort with that comparator.  The sort is stable
\* (ECMAScript 2019): an element goes behind every element that does not
\* compare greater than it.
RECURSIVE insertSorted(_, _, _)
insertSorted(sorted, x, config) ==
    IF sorted = <<>> THEN <<x>>
    ELSE IF compare(sorted[Len(sorted)], x, config) <= 0 THEN Append(sorted, x)
    ELSE Append(insertSorted(SubSeq(sorted, 1, Len(sorted) - 1), x, config),
                sorted[Len(sorted)])

RECURSIVE arraySort(_, _)
arraySort(s, config) ==
    IF s = <<>> THEN <<>>
    ELSE insertSorted(arraySort(SubSeq(s, 1, Len(s) - 1), config), s[Len(s)], config)

\* Variant of sortedData: the records are sorted ascending and the result is
\* reversed for the descending direction.
sortedData_ReversesDesc ==
    IF sortable /\ sortConfig # NULL
    THEN LET ascending == arraySort(filteredData, [sortConfig EXCEPT !.direction = "asc"])
         IN  IF sortConfig.direction = "asc" THEN ascending
             ELSE [i \in 1..Len(ascending) |-> ascending[Len(ascending) + 1 - i]]
    ELSE filteredData

sortedData ==
    IF sortable /\ sortConfig # NULL
    THEN arraySort(filteredData, sortConfig)
    ELSE filteredData

\* The arrays a render of DataTable has made or touched, the data prop first.
\* filter and the spread make a new array; sort sorts its receiver in place and
\* the receiver is the spread copy; without the search, filteredData is the
\* data prop itself.
renderHeap ==
    LET heap0 == <<tableData>>
        filteredRef == IF searchable THEN 2 ELSE 1
        heap1 == IF searchable
                 THEN Append(heap0, SelectSeq(heap0[1],
                                              LAMBDA item : matchesSearch(item, searchTerm)))
                 ELSE heap0
        sorting == sortable /\ sortConfig # NULL
        copyRef == Len(heap1) + 1
        heap2 == IF sorting THEN Append(heap1, heap1[filteredRef]) ELSE heap1
    IN  IF sorting THEN [heap2 EXCEPT ![copyRef] = arraySort(@, sortConfig)] ELSE heap2

\* Variant of dataAfterRender: the data prop itself is sorted (data.sort).
dataAfterRender_SortsData ==
    IF sortable /\ sortConfig # NULL THEN arraySort(tableData, sortConfig) ELSE tableData

\* What the caller's data array holds after the render.
dataAfterRender == renderHeap[1]

\* Variant of paginatedDataAt: the page is cut from the filtered records and
\* only the page is sorted.
paginatedDataAt_SortsPage(p) ==
    LET cut == slice(filteredData, p * rowsPerPage, p * rowsPerPage + rowsPerPage)
    IN  IF sortConfig # NULL THEN arraySort(cut, sortConfig) ELSE cut

\* The slice shown when the page index is p.
paginatedDataAt(p) ==
    IF pagination
    THEN slice(sortedData, p * rowsPerPage, p * rowsPerPage + rowsPerPage)
    ELSE sortedData

paginatedData == paginatedDataAt(page)

\* Variant of totalPages: Math.floor instead of Math.ceil.
totalPages_Floor == Len(filteredData) \div rowsPerPage

\* Math.ceil(filteredData.length / rowsPerPage)
totalPages == (Len(filteredData) + rowsPerPage - 1) \div rowsPerPage

\* ------------------------------------------------------ DataTable: handlers
\* onChange of the search input.
setSearchTerm(text) ==
    /\ Rendered
    /\ searchable
    /\ searchTerm' = text
    /\ download' = NULL
    /\ UNCHANGED themeVars
    /\ UNCHANGED <<data, isLoading, inFlight, error, activeSection, activeTab, page, rowsPerPage, sortConfig>>

\* Variant of handleSort: the direction toggles whichever column is clicked.
handleSort_IgnoresKey(key) ==
    /\ Rendered
    /\ sortable
    /\ sortConfig' =
         [key |-> key,
          direction |-> IF sortConfig # NULL /\ sortConfig.direction = "asc"
                        THEN "desc" ELSE "asc"]
    /\ download' = NULL
    /\ UNCHANGED themeVars
    /\ UNCHANGED <<data, isLoading, inFlight, error, activeSection, activeTab, page, rowsPerPage, searchTerm>>

\* Variant of handleSort: the column clicked is sorted ascending, whatever the
\* sort was.
handleSort_AlwaysAsc(key) ==
    /\ Rendered
    /\ sortable
    /\ sortConfig' = [key |-> key, direction |-> "asc"]
    /\ download' = NULL
    /\ UNCHANGED themeVars
    /\ UNCHANGED <<data, isLoading, inFlight, error, activeSection, activeTab, page,
                   rowsPerPage, searchTerm>>

\* Variant of handleSort: sorting goes back to the first page.
handleSort_ResetsPage(key) ==
    /\ Rendered
    /\ sortable
    /\ sortConfig' =
         [key |-> key,
          direction |-> IF sortConfig # NULL /\ sortConfig.key = key
                           /\ sortConfig.direction = "asc"
                        THEN "desc" ELSE "asc"]
    /\ page' = 0
    /\ download' = NULL
    /\ UNCHANGED themeVars
    /\ UNCHANGED <<data, isLoading, inFlight, error, activeSection, activeTab, rowsPerPage, searchTerm>>

\* Variant of handleSort: a third click on the sorted column clears the sort.
handleSort_ThirdClickClears(key) ==
    /\ Rendered
    /\ sortable
    /\ sortConfig' =
         IF sortConfig # NULL /\ sortConfig.key = key /\ sortConfig.direction = "desc"
         THEN NULL
         ELSE [key |-> key,
               direction |-> IF sortConfig # NULL /\ sortConfig.key = key
                             THEN "desc" ELSE "asc"]
    /\ download' = NULL
    /\ UNCHANGED themeVars
    /\ UNCHANGED <<data, isLoading, inFlight, error, activeSection, activeTab, page, rowsPerPage, searchTerm>>

\* onClick of a column header.
handleSort(key) ==
    /\ Rendered
    /\ sortable
    /\ sortConfig' =
         [key |-> key,
          direction |-> IF sortConfig # NULL /\ sortConfig.key = key
                           /\ sortConfig.direction = "asc"
                        THEN "desc" ELSE "asc"]
    /\ download' = NULL
    /\ UNCHANGED themeVars
    /\ UNCHANGED <<data, isLoading, inFlight, error, activeSection, activeTab, page, rowsPerPage, searchTerm>>

\* Variant of setRowsPerPage: the page index is kept.
setRowsPerPage_KeepsPage(value) ==
    /\ Rendered
    /\ pagination
    /\ value # rowsPerPage
    /\ rowsPerPage' = value
    /\ download' = NULL
    /\ UNCHANGED themeVars
    /\ UNCHANGED <<data, isLoading, inFlight, error, activeSection, activeTab, page,
                   searchTerm, sortConfig>>

\* onChange of the rows-per-page select (fired when the selection changes).
setRowsPerPage(value) ==
    /\ Rendered
    /\ pagination
    /\ value # rowsPerPage
    /\ rowsPerPage' = value
    /\ page' = 0
    /\ download' = NULL
    /\ UNCHANGED themeVars
    /\ UNCHANGED <<data, isLoading, inFlight, error, activeSection, activeTab, searchTerm, sortConfig>>

\* First (disabled on page 0).
firstPage ==
    /\ Rendered /\ pagination
    /\ page # 0
    /\ page' = 0
    /\ download' = NULL
    /\ UNCHANGED themeVars
    /\ UNCHANGED <<data, isLoading, inFlight, error, activeSection, activeTab, rowsPerPage, searchTerm, sortConfig>>

\* Previous (disabled on page 0).
previousPage ==
    /\ Rendered /\ pagination
    /\ page # 0
    /\ page' = Max(0, page - 1)
    /\ download' = NULL
    /\ UNCHANGED themeVars
    /\ UNCHANGED <<data, isLoading, inFlight, error, activeSection, activeTab, rowsPerPage, searchTerm, sortConfig>>

\* Next (disabled on the last page and beyond).
nextPage ==
    /\ Rendered /\ pagination
    /\ ~(page >= totalPages - 1)
    /\ page' = Min(totalPages - 1, page + 1)
    /\ download' = NULL
    /\ UNCHANGED themeVars
    /\ UNCHANGED <<data, isLoading, inFlight, error, activeSection, activeTab, rowsPerPage, searchTerm, sortConfig>>

\* Last (disabled on the last page and beyond).
lastPage ==
    /\ Rendered /\ pagination
    /\ ~(page >= totalPages - 1)
    /\ page' = totalPages - 1
    /\ download' = NULL
    /\ UNCHANGED themeVars
    /\ UNCHANGED <<data, isLoading, inFlight, error, activeSection, activeTab, rowsPerPage, searchTerm, sortConfig>>

\* The page numbers of the numbered buttons rendered.
pageNumbers ==
    {page - 2 + i : i \in 0..(Min(5, totalPages) - 1)} \cap (0..(totalPages - 1))

\* A numbered page button.
gotoPage(pageNumber) ==
    /\ Rendered /\ pagination
    /\ pageNumber \in pageNumbers
    /\ page' = pageNumber
    /\ download' = NULL
    /\ UNCHANGED themeVars
    /\ UNCHANGED <<data, isLoading, inFlight, error, activeSection, activeTab, rowsPerPage, searchTerm, sortConfig>>

\* -------------------------------------------------------- TabView, Dashboard
\* Variant of viewAfterSwitch: new data and columns props put the table back
\* on its first page.
viewAfterSwitch_ResetsPage(tab) ==
    IF TabContentShape(tab) = TabContentShape(activeTab)
    THEN [page |-> InitialPage, rowsPerPage |-> rowsPerPage,
          searchTerm |-> searchTerm, sortConfig |-> sortConfig]
    ELSE [page |-> InitialPage, rowsPerPage |-> InitialRowsPerPage,
          searchTerm |-> InitialSearchTerm, sortConfig |-> InitialSortConfig]

\* The DataTable state after the content of the slot changes to that of tab:
\* an element of the same type at the same place keeps its component state,
\* another type is unmounted and the new DataTable mounts with initial state.
viewAfterSwitch(tab) ==
    IF TabContentShape(tab) = TabContentShape(activeTab)
    THEN [page |-> page, rowsPerPage |-> rowsPerPage,
          searchTerm |-> searchTerm, sortConfig |-> sortConfig]
    ELSE [page |-> InitialPage, rowsPerPage |-> InitialRowsPerPage,
          searchTerm |-> InitialSearchTerm, sortConfig |-> InitialSortConfig]

\* onClick of a tab button.
setActiveTab(tab) ==
    /\ Rendered
    /\ activeTab' = tab
    /\ page' = viewAfterSwitch(tab).page
    /\ rowsPerPage' = viewAfterSwitch(tab).rowsPerPage
    /\ searchTerm' = viewAfterSwitch(tab).searchTerm
    /\ sortConfig' = viewAfterSwitch(tab).sortConfig
    /\ download' = NULL
    /\ UNCHANGED themeVars
    /\ UNCHANGED <<data, isLoading, inFlight, error, activeSection>>

\* Variant of handleRefresh: the Refresh button stays on screen while a fetch
\* is in flight.
handleRefresh_WhileLoading ==
    /\ error = NULL
    /\ inFlight < 3
    /\ isLoading' = TRUE
    /\ inFlight' = inFlight + 1
    /\ download' = NULL
    /\ UNCHANGED themeVars
    /\ UNCHANGED <<data, error, activeSection, activeTab, page, rowsPerPage, searchTerm, sortConfig>>

\* Refresh Data: fetchData runs up to its await; the spinner replaces the tree.
handleRefresh ==
    /\ Rendered
    /\ isLoading' = TRUE
    /\ inFlight' = inFlight + 1
    /\ download' = NULL
    /\ UNCHANGED themeVars
    /\ UNCHANGED <<data, error, activeSection, activeTab, page, rowsPerPage, searchTerm, sortConfig>>

\* Variant of mountedView: the tree keeps the component state it had before the
\* spinner was shown.
mountedView_KeepsState(wasLoading) ==
    [activeTab |-> activeTab, page |-> page, rowsPerPage |-> rowsPerPage,
     searchTerm |-> searchTerm, sortConfig |-> sortConfig]

\* The state of the tree when Dashboard renders it after the spinner: TabView
\* and DataTable mount with their initial state.
mountedView(wasLoading) ==
    IF wasLoading
    THEN [activeTab |-> TabIds[1], page |-> InitialPage,
          rowsPerPage |-> InitialRowsPerPage,
          searchTerm |-> InitialSearchTerm, sortConfig |-> InitialSortConfig]
    ELSE [activeTab |-> activeTab, page |-> page, rowsPerPage |-> rowsPerPage,
          searchTerm |-> searchTerm, sortConfig |-> sortConfig]

\* The theme when Dashboard renders its tree after the spinner: ThemeProvider
\* mounts with isDarkMode false and its effect sets the flag to the preference
\* and adds the class 'dark' to the body if dark is preferred.
mountedTheme(wasLoading) ==
    IF wasLoading
    THEN [isDarkMode |-> prefersDarkMode, bodyDark |-> bodyDark \/ prefersDarkMode]
    ELSE [isDarkMode |-> isDarkMode, bodyDark |-> bodyDark]

\* onClick of the theme button of the Sidebar.
toggleTheme ==
    /\ Rendered
    /\ isDarkMode' = ~isDarkMode
    /\ bodyDark' = ~bodyDark
    /\ download' = NULL
    /\ UNCHANGED <<data, isLoading, inFlight, error, activeSection, activeTab, tableVars,
                   prefersDarkMode>>

\* fetchData resumes after its await: setData and setIsLoading(false).
fetchDataResolve(simulatedData) ==
    /\ inFlight > 0
    /\ inFlight' = inFlight - 1
    /\ data' = simulatedData
    /\ isLoading' = FALSE
    /\ activeTab' = mountedView(isLoading).activeTab
    /\ page' = mountedView(isLoading).page
    /\ rowsPerPage' = mountedView(isLoading).rowsPerPage
    /\ searchTerm' = mountedView(isLoading).searchTerm
    /\ sortConfig' = mountedView(isLoading).sortConfig
    /\ download' = NULL
    /\ isDarkMode' = mountedTheme(isLoading).isDarkMode
    /\ bodyDark' = mountedTheme(isLoading).bodyDark
    /\ UNCHANGED <<error, activeSection, prefersDarkMode>>

\* The sections of the Sidebar.
Sections == {"overview", "locomotives", "faults", "reports"}

\* onSectionChange of the Sidebar.
setActiveSection(section) ==
    /\ Rendered
    /\ activeSection' = section
    /\ download' = NULL
    /\ UNCHANGED themeVars
    /\ UNCHANGED <<data, isLoading, inFlight, error, activeTab, tableVars>>

\* The rows of the overview export, one per metric.
overviewRows ==
    << [metric |-> "Total Runs", value |-> data["overview"].totalRuns],
       [metric |-> "Total Miles", value |-> data["overview"].totalMiles],
       [metric |-> "PTC Active Miles", value |-> data["overview"].totalPtcActiveMiles],
       [metric |-> "PTC Active Percentage",
        value |-> data["overview"].totalPtcActivePercentage],
       [metric |-> "Total Enforcements", value |-> data["overview"].totalEnforcements],
       [metric |-> "Total Faults", value |-> data["overview"].totalFaults],
       [metric |-> "Total Initializations", value |-> data["overview"].totalInits],
       [metric |-> "Cut Out Trips", value |-> data["overview"].totalCutOutTrips] >>

\* Variant of exportFile: outside the three named sections the export writes
\* the rows of the table on screen, filtered and sorted.
exportFile_ExportsView ==
    CASE activeSection = "overview" ->
            [filename |-> "MARC_PTC_Overview.csv", rows |-> overviewRows]
      [] activeSection = "locomotives" ->
            [filename |-> "MARC_PTC_Locomotives.csv", rows |-> data["locomotives"]]
      [] activeSection = "faults" ->
            [filename |-> "MARC_PTC_Faults.csv", rows |-> data["faults"]]
      [] OTHER ->
            [filename |-> "MARC_PTC_Data.csv", rows |-> sortedData]

\* The file handleExport builds: its name and the records it writes, one row
\* each, in the order of the forEach.
exportFile ==
    CASE activeSection = "overview" ->
            [filename |-> "MARC_PTC_Overview.csv", rows |-> overviewRows]
      [] activeSection = "locomotives" ->
            [filename |-> "MARC_PTC_Locomotives.csv", rows |-> data["locomotives"]]
      [] activeSection = "faults" ->
            [filename |-> "MARC_PTC_Faults.csv", rows |-> data["faults"]]
      [] OTHER ->
            [filename |-> "MARC_PTC_Data.csv", rows |-> data["locomotives"]]

\* onClick of Export Data.
handleExport ==
    /\ Rendered
    /\ download' = exportFile
    /\ UNCHANGED themeVars
    /\ UNCHANGED <<data, isLoading, inFlight, error, activeSection, activeTab, tableVars>>

\* ------------------------------------------------------------ specifications
TableNext ==
    \/ \E text \in Terms : setSearchTerm(text)
    \/ \E i \in 1..Len(Columns(activeTab)) : handleSort(Columns(activeTab)[i])
    \/ \E value \in RowsPerPageOptions : setRowsPerPage(value)
    \/ firstPage
    \/ previousPage
    \/ nextPage
    \/ lastPage
    \/ Rendered /\ \E pageNumber \in pageNumbers : gotoPage(pageNumber)

\* The Dashboard: mounted with the spinner and the first fetch pending.
Init ==
    /\ data = NULL
    /\ isLoading = TRUE
    /\ inFlight = 1
    /\ activeTab = TabIds[1]
    /\ page = InitialPage
    /\ rowsPerPage = InitialRowsPerPage
    /\ searchTerm = InitialSearchTerm
    /\ sortConfig = InitialSortConfig
    /\ error = NULL
    /\ activeSection = "overview"
    /\ download = NULL
    /\ isDarkMode = FALSE
    /\ bodyDark = FALSE
    /\ prefersDarkMode = FALSE

Next ==
    \/ \E simulatedData \in DataChoices : fetchDataResolve(simulatedData)
    \/ handleRefresh
    \/ \E tab \in Datasets : setActiveTab(tab)
    \/ \E section \in Sections : setActiveSection(section)
    \/ handleExport
    \/ TableNext

Spec == Init /\ [][Next]_vars

\* One DataTable, mounted over an arbitrary collection of records.
InitTable ==
    /\ data \in {TableData(c) : c \in Colls}
    /\ isLoading = FALSE
    /\ inFlight = 0
    /\ activeTab = TabIds[1]
    /\ page = InitialPage
    /\ rowsPerPage = InitialRowsPerPage
    /\ searchTerm = InitialSearchTerm
    /\ sortConfig = InitialSortConfig
    /\ error = NULL
    /\ activeSection = "overview"
    /\ download = NULL
    /\ isDarkMode = FALSE
    /\ bodyDark = FALSE
    /\ prefersDarkMode = FALSE

SpecTable == InitTable /\ [][TableNext]_vars

\* The Dashboard rendered with fetched data, the search box getting the texts
\* of the specification's examples: a digit string, the string form of a
\* boolean and a status as displayed.
SearchTerms ==
    {S(<<>>), S(<<"8", "0", "5">>), S(<<"t", "r", "u", "e">>), S(<<"O", "p", "e", "n">>)}

InitSearch ==
    /\ data \in DataChoices
    /\ isLoading = FALSE
    /\ inFlight = 0
    /\ activeTab = TabIds[1]
    /\ page = InitialPage
    /\ rowsPerPage = InitialRowsPerPage
    /\ searchTerm = InitialSearchTerm
    /\ sortConfig = InitialSortConfig
    /\ error = NULL
    /\ activeSection = "overview"
    /\ download = NULL
    /\ isDarkMode = FALSE
    /\ bodyDark = FALSE
    /\ prefersDarkMode = FALSE

SearchNext ==
    \/ \E text \in SearchTerms : setSearchTerm(text)
    \/ \E tab \in Datasets : setActiveTab(tab)
    \/ \E i \in 1..Len(Columns(activeTab)) : handleSort(Columns(activeTab)[i])
    \/ \E value \in RowsPerPageOptions : setRowsPerPage(value)

SpecSearch == InitSearch /\ [][SearchNext]_vars

\* The Dashboard with its theme: any colour-scheme preference, the theme
\* button, Refresh and the tabs.
InitTheme ==
    /\ data = NULL
    /\ isLoading = TRUE
    /\ inFlight = 1
    /\ activeTab = TabIds[1]
    /\ page = InitialPage
    /\ rowsPerPage = InitialRowsPerPage
    /\ searchTerm = InitialSearchTerm
    /\ sortConfig = InitialSortConfig
    /\ error = NULL
    /\ activeSection = "overview"
    /\ download = NULL
    /\ isDarkMode = FALSE
    /\ bodyDark = FALSE
    /\ prefersDarkMode \in BOOLEAN

ThemeNext ==
    \/ \E simulatedData \in DataChoices : fetchDataResolve(simulatedData)
    \/ handleRefresh
    \/ toggleTheme
    \/ \E tab \in Datasets : setActiveTab(tab)

SpecTheme == InitTheme /\ [][ThemeNext]_vars

\* The onChange handler of the rows-per-page select run on change events of
\* any value: the handler takes Number(e.target.value) as it comes.
ChangeEventValues == RowsPerPageOptions \cup {0, -5}

SelectNext == \E value \in ChangeEventValues : setRowsPerPage(value)

SpecSelect == InitTable /\ [][SelectNext]_vars

\* ===================================================================== claims
\* Every column key of every table.
ColumnKeys == UNION {{Columns(tab)[i] : i \in 1..Len(Columns(tab))} : tab \in Datasets}

\* C1: in every state in which a DataTable is shown, the page index lies in
\* [0, max(0, ceil(filteredCount / pageSize) - 1)].
C1_PageIndexInRange ==
    Rendered => page \in 0..Max(0, totalPages - 1)

\* C2: every change of the search term replaces searchTerm and resets the page
\* index to 0.
C2_SearchResetsPage ==
    [][\A text \in Terms :
          setSearchTerm(text) => (searchTerm' = text /\ page' = 0)]_vars

\* C3: a search, sort, page or page-size change made while one dataset's table
\* is shown does not change the view state any other dataset's table shows
\* when its tab is selected.
C3_TabsOwnViewState ==
    [][TableNext =>
          \A tab \in Datasets \ {activeTab} :
              viewAfterSwitch(tab)' = viewAfterSwitch(tab)]_vars

\* C4: when a fetch completes (the spinner gives way to the tree), the record
\* collection is the fetched one and the table shows the default view state:
\* search term "", no sort key, page 0, page size 10.
C4_RefreshResetsView ==
    [][(isLoading /\ ~isLoading') =>
          /\ data' \in DataChoices
          /\ searchTerm' = <<>>
          /\ sortConfig' = NULL
          /\ page' = 0
          /\ rowsPerPage' = 10]_vars

\* A refresh is under way from a view whose search term, sort, page size had
\* all been changed.
C4_Witness ==
    /\ isLoading /\ data # NULL
    /\ searchTerm # <<>> /\ sortConfig # NULL /\ rowsPerPage # 10

\* Record i of sequence F comes before record j in the order the view state
\* asks for: by the value of the sort key in the sort direction, records with
\* equal values (and all records when no sort key is set) by position.
Precedes(F, i, j) ==
    IF sortConfig = NULL THEN i < j
    ELSE LET a == Field(F[i], sortConfig.key)
             b == Field(F[j], sortConfig.key)
         IN  \/ sortConfig.direction = "asc" /\ Less(a, b)
             \/ sortConfig.direction = "desc" /\ Less(b, a)
             \/ ~Less(a, b) /\ ~Less(b, a) /\ i < j

\* The position of record j of F in the sorted sequence of F.
Rank(F, j) == Cardinality({i \in 1..Len(F) : Precedes(F, i, j)}) + 1

\* C5: the visible page is elements [page*pageSize, page*pageSize + pageSize)
\* of the globally sorted sequence of the records matching the search term.
C5_PipelineOrder ==
    Rendered =>
        LET F == filteredData
            visible == paginatedData
            first == page * rowsPerPage
            rank == [j \in 1..Len(F) |-> Rank(F, j)]
            onPage(j) == rank[j] \in (first + 1)..(first + rowsPerPage)
        IN  /\ Len(visible) = Cardinality({j \in 1..Len(F) : onPage(j)})
            /\ \A j \in 1..Len(F) : onPage(j) => visible[rank[j] - first] = F[j]

\* A second page of a searched table whose sort reorders the filtered records.
C5_Witness ==
    /\ Rendered
    /\ searchTerm # <<>> /\ sortConfig # NULL /\ page = 1
    /\ Len(paginatedData) > 0
    /\ sortedData # filteredData

\* Two characters are equal up to letter case.
EqIgnoreCase(c, d) ==
    \/ c = d
    \/ c \in 65..90 /\ d = c + 32
    \/ d \in 65..90 /\ c = d + 32

\* t occurs in s as a substring, ignoring letter case.
ContainsIgnoreCase(s, t) ==
    \E k \in 0..(Len(s) - Len(t)) :
        \A i \in 1..Len(t) : EqIgnoreCase(s[k + i], t[i])

\* C6: a record is in the filtered result iff the string form of one of its
\* field values contains the search text case-insensitively; the empty search
\* text yields the full input in its original order.
C6_FilterCorrect ==
    Rendered =>
        LET F == filteredData
        IN  /\ \A i \in 1..Len(tableData) :
                  (\E j \in 1..Len(F) : F[j] = tableData[i])
                  <=> (\E f \in DOMAIN tableData[i] :
                          ContainsIgnoreCase(String(tableData[i][f]), searchTerm))
            /\ searchTerm = <<>> => F = tableData

\* The search text "A" keeps a record whose id is the lower-case "ab".
C6_Witness ==
    /\ Rendered
    /\ searchTerm = S(<<"A">>)
    /\ \E j \in 1..Len(filteredData) : filteredData[j].id = Str(<<"a", "b">>)

\* The records of s that are a or b, in the order of s.
Only(s, a, b) == SelectSeq(s, LAMBDA r : r \in {a, b})

\* C7: records whose sort-key values compare equal keep their relative order
\* from the filtered sequence, in either direction; the direction decides only
\* the order of records with different values.
C7_SortStable ==
    (Rendered /\ sortConfig # NULL) =>
        LET F == filteredData
            sorted == sortedData
            K(r) == Field(r, sortConfig.key)
        IN  /\ \A a, b \in {F[i] : i \in 1..Len(F)} :
                  (~Less(K(a), K(b)) /\ ~Less(K(b), K(a)))
                  => Only(sorted, a, b) = Only(F, a, b)
            /\ \A i, j \in 1..Len(sorted) :
                  i < j =>
                    IF sortConfig.direction = "asc"
                    THEN ~Less(K(sorted[j]), K(sorted[i]))
                    ELSE ~Less(K(sorted[i]), K(sorted[j]))

\* A descending sort over records with a tie between two different records and
\* with different key values.
C7_Witness ==
    /\ Rendered /\ sortConfig # NULL
    /\ sortConfig.direction = "desc"
    /\ sortedData # filteredData
    /\ \E i, j \in 1..Len(filteredData) :
          /\ filteredData[i] # filteredData[j]
          /\ Field(filteredData[i], sortConfig.key) = Field(filteredData[j], sortConfig.key)

\* The visible pages 0..n-1, one after the other.
RECURSIVE ConcatPages(_)
ConcatPages(n) ==
    IF n <= 0 THEN <<>> ELSE ConcatPages(n - 1) \o paginatedDataAt(n - 1)

\* C8: the pages 0..totalPages-1 concatenated are exactly the filtered and
\* sorted sequence, no page has more than pageSize records, and totalPages is
\* ceil(totalFiltered / pageSize), 0 when nothing passes the filter.
C8_PaginationComplete ==
    Rendered =>
        LET total == totalPages
            totalFiltered == Len(filteredData)
        IN  /\ ConcatPages(total) = sortedData
            /\ \A p \in 0..(total - 1) : Len(paginatedDataAt(p)) <= rowsPerPage
            /\ total >= 0
            /\ total * rowsPerPage >= totalFiltered
            /\ (total - 1) * rowsPerPage < totalFiltered \/ total = 0
            /\ totalFiltered = 0 => total = 0

\* Two pages, the last one partly filled.
C8_Witness ==
    /\ Rendered
    /\ totalPages = 2
    /\ Len(filteredData) % rowsPerPage # 0
    /\ sortConfig # NULL

\* C9: a click on the column already sorted toggles the direction; a click on
\* another column sorts by it ascending.
C9_SortToggle ==
    [][\A key \in ColumnKeys :
          handleSort(key) =>
            /\ sortConfig'.key = key
            /\ sortConfig'.direction =
                 IF sortConfig # NULL /\ sortConfig.key = key
                 THEN (IF sortConfig.direction = "asc" THEN "desc" ELSE "asc")
                 ELSE "asc"]_vars

\* The runs column has been clicked twice.
C9_Witness ==
    /\ Rendered /\ sortConfig # NULL
    /\ sortConfig.key = "runs" /\ sortConfig.direction = "desc"

\* C10: a click on a column header leaves the page index, the page size and
\* the search term unchanged.
C10_SortKeepsPage ==
    [][(\E key \in ColumnKeys : handleSort(key)) =>
          UNCHANGED <<page, rowsPerPage, searchTerm>>]_vars

\* Sorted descending while on the second page of a searched table.
C10_Witness ==
    /\ Rendered /\ sortConfig # NULL
    /\ sortConfig.direction = "desc" /\ page = 1 /\ searchTerm # <<>>

\* C11: choosing a page size replaces the page size and puts the table on page
\* 0 whatever the page was, leaves the search term and the sort alone, and the
\* page count becomes the filtered count divided by the new size, rounded up.
C11_PageSizeResetsPage ==
    [][\A value \in RowsPerPageOptions :
          setRowsPerPage(value) =>
            /\ rowsPerPage' = value
            /\ page' = 0
            /\ UNCHANGED <<searchTerm, sortConfig>>
            /\ LET totalFiltered == Len(filteredData)
                   total == totalPages'
               IN  /\ total * value >= totalFiltered
                   /\ (total - 1) * value < totalFiltered \/ total = 0]_vars

\* Size 5 chosen over a searched and sorted table, which then has two pages.
C11_Witness ==
    /\ Rendered
    /\ rowsPerPage = 5 /\ page = 0 /\ totalPages = 2
    /\ searchTerm # <<>> /\ sortConfig # NULL

\* A click on one of the page controls: First, Previous, a numbered button,
\* Next or Last.
PageControlUsed ==
    \/ firstPage
    \/ previousPage
    \/ nextPage
    \/ lastPage
    \/ Rendered /\ \E pageNumber \in pageNumbers : gotoPage(pageNumber)

\* C12: after a click on any page control the page index lies in
\* 0 .. max(0, totalPages - 1), and a click on the numbered button of the page
\* already shown changes nothing of the view state.
C12_NavigationClamped ==
    [][/\ PageControlUsed => page' \in 0..Max(0, totalPages' - 1)
       /\ (Rendered /\ gotoPage(page)) => UNCHANGED tableVars]_vars

\* C13: the rows handleExport writes for a dataset are the records that pass
\* the current search term of that dataset's table, in its current sort order
\* (all of them, not only the page shown).
C13_ExportFilteredSorted ==
    [][(handleExport /\ activeSection \in {"locomotives", "faults"}
                     /\ activeTab = activeSection)
          => download'.rows = sortedData]_vars

\* C14: when no record is left after the search (empty collection, or a term
\* that matches nothing) the view has zero pages, shows no record and is on
\* page 0.
C14_EmptyViewDefined ==
    Rendered =>
        LET totalFiltered == Len(filteredData)
        IN  totalFiltered = 0 =>
              /\ totalPages = 0
              /\ paginatedData = <<>>
              /\ page = 0

\* The sum of the counts of a distribution.
RECURSIVE SumValues(_)
SumValues(items) ==
    IF items = <<>> THEN 0 ELSE items[1].value.v + SumValues(Tail(items))

\* C15: the bucket counts of a distribution sum to the number of records
\* classified: 48 for ptcPercentageDistribution and runCountDistribution, 162
\* for initsDistribution.
C15_DistributionTotals ==
    (Rendered /\ data \in DataChoices \ {LiteralData}) =>
        /\ SumValues(data["ptcPercentageDistribution"]) = LocomotiveCount
        /\ SumValues(data["runCountDistribution"]) = LocomotiveCount
        /\ SumValues(data["initsDistribution"]) = InitializationCount

\* A locomotive whose PTC-active percentage is below the lowest declared
\* bucket of ptcPercentageDistribution, "90-95%".
BelowLowestBucket(loco) ==
    LET percentage == Field(loco, "ptcActivePercentage")
    IN  percentage.t = "dec" /\ percentage.v < 90 * 100

\* C16: a fetch whose locomotives include one that fits no declared bucket
\* fails with an error; it does not end with the data shown and that
\* locomotive left out of the distribution.
C16_UnknownBucketRejected ==
    ((~isLoading) /\ data # NULL
        /\ \E i \in DOMAIN data["locomotives"] : BelowLowestBucket(data["locomotives"][i]))
    => error # NULL

\* The field a ranking measures.
RankedField(key) ==
    CASE key = "topLocosByMiles" -> "miles"
      [] key = "topLocosByRuns" -> "runs"
      [] key = "bottomByPtcPercentage" -> "ptcActivePercentage"

\* A ranking has min(10, number of locomotives) entries.
RankingLength(key) ==
    Len(data[key]) = Min(10, Len(data["locomotives"]))

\* Every entry of a ranking is the id and the measured value of a locomotive.
RankingFromRecords(key) ==
    \A i \in DOMAIN data[key] :
        \E j \in DOMAIN data["locomotives"] :
            /\ data["locomotives"][j]["id"] = data[key][i].name
            /\ Field(data["locomotives"][j], RankedField(key)) = data[key][i].value

\* A ranking is in descending order of value (top) or ascending (bottom).
RankingOrdered(key) ==
    \A i, j \in DOMAIN data[key] :
        i < j => IF key = "bottomByPtcPercentage"
                 THEN ~Less(data[key][j].value, data[key][i].value)
                 ELSE ~Less(data[key][i].value, data[key][j].value)

\* C17: each ranking is the top 10 of the locomotive collection: min(10,
\* number of locomotives) entries, each the id and value of a locomotive of
\* the collection, in descending (top) or ascending (bottom) order of value.
C17_RankingsAreTopN ==
    Rendered =>
        \A key \in RankingKeys :
            RankingLength(key) /\ RankingFromRecords(key) /\ RankingOrdered(key)

SearchAgainChanges(text) == ENABLED (setSearchTerm(text) /\ tableVars' # tableVars)
SizeAgainChanges(value) == ENABLED (setRowsPerPage(value) /\ tableVars' # tableVars)
PageAgainChanges(pageNumber) == ENABLED (gotoPage(pageNumber) /\ tableVars' # tableVars)
\* Clicking the column header again would change the view state.
SortAgainChanges(key) == ENABLED (handleSort(key) /\ tableVars' # tableVars)

\* The three operations other than the sort are idempotent: done a second time
\* with the same argument they leave the view state as the first left it.
OthersIdempotent ==
    /\ \A text \in Terms : setSearchTerm(text) => ~SearchAgainChanges(text)'
    /\ \A value \in RowsPerPageOptions : setRowsPerPage(value) => ~SizeAgainChanges(value)'
    /\ \A pageNumber \in 0..MaxRecords :
          (page' = pageNumber /\ gotoPage(pageNumber)) => ~PageAgainChanges(pageNumber)'

DefaultViewState ==
    /\ searchTerm = <<>> /\ sortConfig = NULL
    /\ page = 0 /\ rowsPerPage = 10

\* A step of the Dashboard that is no interaction with the table: a fetch
\* completing, Refresh, a tab or section chosen, Export.
OutsideTheTable ==
    \/ \E simulatedData \in DataChoices : fetchDataResolve(simulatedData)
    \/ handleRefresh
    \/ \E tab \in Datasets : setActiveTab(tab)
    \/ \E section \in Sections : setActiveSection(section)
    \/ handleExport

\* C21: a DataTable is created with an empty search term, no sort, page 0 and
\* 10 rows per page, and a step that is no interaction with the table (a
\* re-render, new data or columns props) changes no field of its view state,
\* unless the table is unmounted and a new one created.
C21_ViewStateOnlyByUser ==
    /\ DefaultViewState
    /\ [][OutsideTheTable =>
            IF (isLoading /\ ~isLoading')
                  \/ TabContentShape(activeTab') # TabContentShape(activeTab)
            THEN DefaultViewState'
            ELSE UNCHANGED tableVars]_vars

\* Another tab of the same DataTable is shown with the page size, the search
\* term and the sort the table had before.
C21_Witness ==
    /\ Rendered /\ activeTab = "routes"
    /\ rowsPerPage = 5 /\ searchTerm # <<>> /\ sortConfig # NULL
    /\ sortConfig.key = "runs"

\* The search term "805" is typed over the locomotive table.
Searching805 ==
    Rendered /\ activeTab = "locomotives" /\ searchTerm = S(<<"8", "0", "5">>)

\* The string form of the field contains "805".
Has805(item, field) == includes(String(Field(item, field)), S(<<"8", "0", "5">>))

\* C22 as stated: with the search term "805" every locomotive kept has an id
\* that contains "805".
C22_OnlyIdsMatch805 ==
    Searching805 =>
        LET kept == filteredData
        IN  \A i \in DOMAIN kept : Has805(kept[i], "id")

\* C22, amended: with the search term "805" the locomotives kept are those
\* with some field, the id or any other, whose string form contains "805".
C22_AnyFieldMatches805 ==
    Searching805 =>
        LET kept == filteredData
        IN  /\ \A i \in DOMAIN kept : \E field \in DOMAIN kept[i] : Has805(kept[i], field)
            /\ \A j \in DOMAIN tableData :
                  (\E field \in DOMAIN tableData[j] : Has805(tableData[j], field))
                  => \E i \in DOMAIN kept : kept[i] = tableData[j]

\* "805" keeps a locomotive whose id has it and one whose id has not.
C22_Witness ==
    /\ Searching805
    /\ \E i \in DOMAIN filteredData : Has805(filteredData[i], "id")
    /\ \E i \in DOMAIN filteredData :
          ~Has805(filteredData[i], "id") /\ Has805(filteredData[i], "ptcActiveMiles")

\* The keys of the columns of the table shown.
ShownColumnKeys == {Columns(activeTab)[i] : i \in 1..Len(Columns(activeTab))}

\* C23: the records kept do not depend on the columns: a record is kept
\* through a matching field that has no column, and a record none of whose
\* fields matches is not kept although the text its Status column shows
\* ("Resolved", "Open") contains the search term.
C23_FilterIgnoresColumns ==
    Rendered =>
        LET kept == filteredData
        IN  \A i \in DOMAIN tableData :
              LET item == tableData[i]
                  isKept == \E j \in DOMAIN kept : kept[j] = item
                  fieldMatches(field) == ContainsIgnoreCase(String(item[field]), searchTerm)
              IN  /\ (\E field \in DOMAIN item \ ShownColumnKeys : fieldMatches(field))
                        => isKept
                  /\ (activeTab = "faults"
                        /\ ContainsIgnoreCase(renderResolved(item), searchTerm)
                        /\ \A field \in DOMAIN item : ~fieldMatches(field))
                        => ~isKept

\* "Open" is searched in the fault table: a fault shown as Open is there and
\* no record is kept.
C23_Witness ==
    /\ Rendered /\ activeTab = "faults" /\ searchTerm = S(<<"O", "p", "e", "n">>)
    /\ \E i \in DOMAIN tableData : ~tableData[i]["resolved"].v
    /\ filteredData = <<>>

\* The sort key is the key of a column that is no field of the records shown.
SortedByNonField ==
    /\ Rendered /\ sortConfig # NULL
    /\ \A i \in DOMAIN tableData : sortConfig.key \notin DOMAIN tableData[i]

\* C24: a click on a column whose key is no field of the records sets the sort
\* key and toggles the direction like any other, and in both directions the
\* order shown is the order of the filtered records.
C24_NonFieldSortKeepsOrder ==
    /\ [](SortedByNonField => sortedData = filteredData)
    /\ [][\A key \in {"coordinates", "ptcActivePercentage"} :
            (activeTab \in {"map", "hourly"} /\ handleSort(key)) =>
              /\ sortConfig'.key = key
              /\ sortConfig'.direction =
                   IF sortConfig # NULL /\ sortConfig.key = key
                         /\ sortConfig.direction = "asc"
                   THEN "desc" ELSE "asc"]_vars

\* The geographic table sorted descending by its Coordinates column, two
\* different records shown.
C24_Witness ==
    /\ SortedByNonField /\ activeTab = "map"
    /\ sortConfig.key = "coordinates" /\ sortConfig.direction = "desc"
    /\ Len(filteredData) = 2 /\ filteredData[1] # filteredData[2]

\* C25: when the page index is in range, the numbered buttons rendered include
\* the button of the page shown, and every number rendered is a page that
\* exists.
C25_CurrentPageButtonShown ==
    Rendered =>
        LET total == totalPages
        IN  /\ pageNumbers \subseteq 0..(total - 1)
            /\ page \in 0..(total - 1) => page \in pageNumbers

\* C26: whenever the tree is rendered, isDarkMode is true exactly when the
\* body carries the class 'dark'.
C26_ThemeInSync == Rendered => (isDarkMode <=> bodyDark)

\* C30: in every reachable state the page size is one of 5, 10, 25, 50 and
\* 100, so the division of the page count has a positive divisor.
C30_PageSizeIsAnOption == rowsPerPage \in {5, 10, 25, 50, 100} /\ rowsPerPage > 0

\* A table of several records shown whole on one page of 100 rows.
C30_Witness ==
    /\ Rendered
    /\ rowsPerPage = 100
    /\ searchTerm = <<>>
    /\ Len(tableData) > 1
    /\ totalPages = 1

\* C27: at most one fetch is in flight and isLoading is true exactly while it
\* is; while it is in flight the only step is its completion, and the data is
\* replaced only by the completion of that single fetch.
C27_SingleFetchInFlight ==
    /\ [](inFlight \in {0, 1} /\ (isLoading <=> inFlight = 1))
    /\ [][isLoading => inFlight' = 0 /\ ~isLoading' /\ data' # NULL]_vars
    /\ [][data' # data => isLoading /\ inFlight = 1 /\ inFlight' = 0 /\ ~isLoading']_vars

\* A refresh in flight over data already loaded.
C27_Witness == isLoading /\ inFlight = 1 /\ data # NULL /\ activeSection = "faults"

\* C28: the records handleExport writes are chosen by activeSection alone:
\* the eight overview metrics for 'overview', every fault record for 'faults',
\* every locomotive record for 'locomotives' and for any other section,
\* whatever the active tab and the view state of the table; without data
\* nothing is exported.
C28_ExportBySectionOnly ==
    /\ [](data = NULL => ~ENABLED handleExport)
    /\ [][handleExport =>
            /\ download' # NULL
            /\ UNCHANGED <<data, activeSection, activeTab, tableVars>>
            /\ IF activeSection = "overview"
               THEN /\ Len(download'.rows) = 8
                    /\ \A i \in 1..8 : DOMAIN download'.rows[i] = {"metric", "value"}
                    /\ download'.rows[1].value = data["overview"].totalRuns
                    /\ download'.rows[8].value = data["overview"].totalCutOutTrips
               ELSE IF activeSection = "faults"
               THEN download'.rows = data["faults"]
               ELSE download'.rows = data["locomotives"]]_vars

\* An export from the reports section while the table shows a filtered and
\* sorted tab other than the locomotives.
C28_Witness ==
    /\ download # NULL
    /\ activeSection = "reports"
    /\ download.rows = data["locomotives"]
    /\ activeTab = "faults"
    /\ searchTerm # <<>>
    /\ sortConfig # NULL

\* The DataTable is mounted anew: the tree comes back after the spinner, or the
\* tab chosen renders another element type in the table's place.
Remounted ==
    \/ isLoading /\ ~isLoading'
    \/ TabContentShape(activeTab') # TabContentShape(activeTab)

\* C29: once a sort key is set, a step returns sortConfig to null exactly when
\* it remounts the DataTable: no search, sort, page or page-size operation
\* clears the sort.
C29_SortNeverCleared ==
    [][sortConfig # NULL => (sortConfig' = NULL <=> Remounted)]_vars

\* The table is sorted descending, searched, and shown on a later page: every
\* kind of operation has acted since the sort was set.
C29_Witness ==
    /\ Rendered
    /\ sortConfig # NULL /\ sortConfig.direction = "desc"
    /\ searchTerm # <<>>
    /\ rowsPerPage = 5
    /\ page > 0

====
